---- MODULE Spec2Model ----
(***************************************************************************)
(* deepMerge of @se-oss/deep-merge (src/src/index.ts) as a state machine.  *)
(*                                                                         *)
(* The JavaScript heap is a sequence of nodes; a node's position is its    *)
(* identity (what === compares and what the WeakMaps are keyed by).  A     *)
(* value is an integer: v > 0 is a reference to heap[v], v = 0 is          *)
(* undefined (also a null root), v < 0 is a scalar.  A node is a plain     *)
(* object ("map": keys in Object.keys order with their values), an array   *)
(* ("seq") or any other object ("opq": Date, RegExp, class instance),      *)
(* which the code never looks into.                                        *)
(*                                                                         *)
(* The recursion of internalDeepMerge is an explicit stack of frames, one  *)
(* per invocation that allocated an output node and is inside one of its   *)
(* loops.  Invocations that return before allocating complete within the   *)
(* step of their caller.                                                   *)
(***************************************************************************)
EXTENDS Integers, Sequences, FiniteSets, TLC

\* Largest number of Map/Sequence/Opaque nodes in the two input graphs.
NumNodes == 4
\* Largest number of fields (map entries plus array elements) in the inputs.
MaxFields == 3

Keys == <<"a", "b">>

VARIABLES
  heap,         \* every object: the inputs first, then the allocated ones
  input,        \* the heap as it was when deepMerge was called
  target,       \* deepMerge's 1st argument
  source,       \* deepMerge's 2nd argument
  mergeArrays,  \* options.mergeArrays
  cloneMap,     \* WeakMap: source-only node -> its clone
  pairMap,      \* WeakMap of WeakMaps: <<obj1, obj2>> -> their output
  stack,        \* the invocations of internalDeepMerge in progress
  pc,           \* "start", "running" or "done"
  result        \* what deepMerge returned (0 until then)

vars == <<heap, input, target, source, mergeArrays, cloneMap, pairMap, stack, pc, result>>

Undefined == 0

----------------------------------------------------------------------------
\* Type inspection

isObject(v) == v > 0

isArray(h, v) == isObject(v) /\ h[v].kind = "seq"

isPlainObject(h, v) == isObject(v) /\ h[v].kind = "map"

\* Object.prototype.hasOwnProperty.call(h[x], k)
hasOwn(h, x, k) == \E i \in 1..Len(h[x].keys) : h[x].keys[i] = k

KeyIndex(nd, k) == CHOOSE i \in 1..Len(nd.keys) : nd.keys[i] = k

\* h[x][k] for an own key k
Get(h, x, k) == h[x].vals[KeyIndex(h[x], k)]

KeySet(nd) == {nd.keys[i] : i \in 1..Len(nd.keys)}

\* nd[k] = v: an existing key keeps its slot, a new key is appended
SetKey(nd, k, v) ==
  IF \E i \in 1..Len(nd.keys) : nd.keys[i] = k
  THEN [nd EXCEPT !.vals[KeyIndex(nd, k)] = v]
  ELSE [nd EXCEPT !.keys = Append(@, k), !.vals = Append(@, v)]

\* nd.push(v)
Push(nd, v) == [nd EXCEPT !.vals = Append(@, v)]

EmptyArr == [kind |-> "seq", keys |-> <<>>, vals |-> <<>>]

EmptyObj == [kind |-> "map", keys |-> <<>>, vals |-> <<>>]

----------------------------------------------------------------------------
\* The identity tables

getPair(pm, a, b) == IF <<a, b>> \in DOMAIN pm THEN pm[<<a, b>>] ELSE Undefined

setPair(pm, a, b, value) == [p \in DOMAIN pm \cup {<<a, b>>} |-> IF p = <<a, b>> THEN value ELSE pm[p]]

cloneSet(cm, b, value) == [x \in DOMAIN cm \cup {b} |-> IF x = b THEN value ELSE cm[x]]

----------------------------------------------------------------------------
\* internalDeepMerge(a, b): which return or which allocation it reaches

Branch(h, cm, pm, a, b) ==
  CASE a = b                                    -> "identity"
    [] a # b /\ ~isObject(b)                    -> "scalar"
    [] a # b /\ isObject(b) /\ ~isObject(a) ->
         (CASE b \in DOMAIN cm                  -> "cloned"
            [] b \notin DOMAIN cm /\ isArray(h, b) -> "cloneArr"
            [] b \notin DOMAIN cm /\ isPlainObject(h, b) -> "cloneObj"
            [] OTHER                            -> "opaque")
    [] OTHER ->
         (CASE isObject(getPair(pm, a, b))      -> "paired"
            [] ~isObject(getPair(pm, a, b)) /\ isArray(h, b) /\ ~isArray(h, a) -> "arrOverOther"
            [] ~isObject(getPair(pm, a, b)) /\ isArray(h, b) /\ isArray(h, a) -> "arrArr"
            [] ~isObject(getPair(pm, a, b)) /\ ~isArray(h, b)
               /\ isArray(h, a) /\ isPlainObject(h, b) -> "objOverArr"
            [] ~isObject(getPair(pm, a, b)) /\ ~isArray(h, b)
               /\ ~(isArray(h, a) /\ isPlainObject(h, b))
               /\ (~isPlainObject(h, a) \/ ~isPlainObject(h, b)) -> "replace"
            [] OTHER                            -> "merge")

Returning == {"identity", "scalar", "cloned", "opaque", "paired", "replace"}

\* ReturnValue with a slip: when either side is not a plain object, the target's
\* value is returned instead of the source's
ReturnValueTargetWins(h, cm, pm, a, b) ==
  CASE Branch(h, cm, pm, a, b) \in {"identity", "replace"} -> a
    [] Branch(h, cm, pm, a, b) = "cloned"   -> cm[b]
    [] Branch(h, cm, pm, a, b) = "paired"   -> getPair(pm, a, b)
    [] OTHER                                -> b

\* The value of an invocation that returns before allocating
ReturnValue(h, cm, pm, a, b) ==
  CASE Branch(h, cm, pm, a, b) = "identity" -> a
    [] Branch(h, cm, pm, a, b) = "cloned"   -> cm[b]
    [] Branch(h, cm, pm, a, b) = "paired"   -> getPair(pm, a, b)
    [] OTHER                                -> b

\* NewOutput with a slip: the self-references of obj1 are not re-pointed
NewOutputNoSelfFix(h, br, a, out) ==
  CASE br \in {"cloneArr", "arrOverOther", "arrArr"} -> EmptyArr
    [] br \in {"cloneObj", "objOverArr"}             -> EmptyObj
    [] OTHER -> [kind |-> "map", keys |-> h[a].keys, vals |-> h[a].vals]

\* The output object as first allocated. For a plain-object merge: the keys of
\* obj1 copied by reference, a value that is obj1 itself re-pointed to the output.
NewOutput(h, br, a, out) ==
  CASE br \in {"cloneArr", "arrOverOther", "arrArr"} -> EmptyArr
    [] br \in {"cloneObj", "objOverArr"}             -> EmptyObj
    [] OTHER ->
         [kind |-> "map", keys |-> h[a].keys,
          vals |-> [i \in 1..Len(h[a].vals) |->
                      IF h[a].vals[i] = a THEN out ELSE h[a].vals[i]]]

\* RegisterClone with a slip: the clone is never entered in the table
RegisterCloneNever(cm, br, b, out) == cm

\* cloneMap after the allocation
RegisterClone(cm, br, b, out) ==
  IF br \in {"cloneArr", "cloneObj"} THEN cloneSet(cm, b, out) ELSE cm

\* RegisterPair with a slip: the output is never entered in the table
RegisterPairNever(pm, br, a, b, out) == pm

\* pairMap after the allocation
RegisterPair(pm, br, a, b, out) ==
  IF br \in {"arrOverOther", "arrArr", "objOverArr", "merge"}
  THEN setPair(pm, a, b, out) ELSE pm

\* The loop an allocating invocation starts in
FirstLoop(br, ma) ==
  CASE br \in {"cloneArr", "arrOverOther"} -> "pushB"
    [] br = "arrArr"                       -> IF ma THEN "pushA" ELSE "pushB"
    [] br \in {"cloneObj", "objOverArr"}   -> "setB"
    [] OTHER                               -> "mergeKeys"

\* A frame whose loop over obj1's elements is over moves on to obj2's
Settle(h, f) ==
  IF f.loop = "pushA" /\ f.i > Len(h[f.a].vals)
  THEN [f EXCEPT !.loop = "pushB", !.i = 1]
  ELSE f

NewFrame(h, br, ma, a, b, out) ==
  Settle(h, [a |-> a, b |-> b, out |-> out, loop |-> FirstLoop(br, ma), i |-> 1])

\* The frame's loops are over: it returns its output
Finished(h, f) == f.loop # "pushA" /\ f.i > Len(h[f.b].vals)

\* NextArgs with a slip: a key of both sides is cloned from the source, never merged
NextArgsNoRecursion(h, f) ==
  IF f.loop = "pushA" THEN <<Undefined, h[f.a].vals[f.i]>>
  ELSE <<Undefined, h[f.b].vals[f.i]>>

\* The arguments of the invocation the frame's loop makes next
NextArgs(h, f) ==
  CASE f.loop = "pushA" -> <<Undefined, h[f.a].vals[f.i]>>
    [] f.loop \in {"pushB", "setB"} -> <<Undefined, h[f.b].vals[f.i]>>
    [] OTHER ->
         LET key == h[f.b].keys[f.i] IN
         IF hasOwn(h, f.a, key) /\ isObject(Get(h, f.a, key)) /\ isObject(Get(h, f.b, key))
         THEN <<Get(h, f.a, key), Get(h, f.b, key)>>
         ELSE <<Undefined, Get(h, f.b, key)>>

\* Store with a slip: the value is written into obj2, not into the output
StoreIntoSource(h, f, v) ==
  IF f.loop \in {"pushA", "pushB"}
  THEN [h EXCEPT ![f.b] = Push(@, v)]
  ELSE [h EXCEPT ![f.b] = SetKey(@, h[f.b].keys[f.i], v)]

\* The heap after the frame stores v, the value of that invocation
Store(h, f, v) ==
  IF f.loop \in {"pushA", "pushB"}
  THEN [h EXCEPT ![f.out] = Push(@, v)]
  ELSE [h EXCEPT ![f.out] = SetKey(@, h[f.b].keys[f.i], v)]

Advance(h, f) == Settle(h, [f EXCEPT !.i = @ + 1])

\* RootArgs with a slip: a structured target is not cloned when source is absent
RootArgsNoTargetClone(t, s) ==
  CASE ~isObject(t) -> <<Undefined, s>>
    [] OTHER -> <<t, s>>

\* deepMerge's choice of the first invocation
RootArgs(t, s) ==
  CASE ~isObject(t) -> <<Undefined, s>>
    [] isObject(t) /\ ~isObject(s) -> <<Undefined, t>>
    [] OTHER -> <<t, s>>

----------------------------------------------------------------------------
\* The input graphs

Stride == MaxFields + 1

\* Every scalar of the inputs is a different number: the scalar in slot i of node x
ScalarAt(x, i) == 0 - (x * Stride + i)

KeyLists == {<<>>, <<Keys[1]>>, <<Keys[2]>>, Keys}

\* The nodes whose fields hold vs: a plain object for each list of that many
\* keys, an array, and for no field an opaque object
NodesWith(vs) ==
  {[kind |-> "map", keys |-> ks, vals |-> vs] : ks \in {k \in KeyLists : Len(k) = Len(vs)}}
    \cup {[kind |-> "seq", keys |-> <<>>, vals |-> vs]}
    \cup (IF vs = <<>> THEN {[kind |-> "opq", keys |-> <<>>, vals |-> <<>>]} ELSE {})

RECURSIVE Fields(_, _)
\* The lists of l field values of a node when hi nodes are known so far: each is
\* a scalar (-1 here), a known node or the next new node. With each list, the
\* number of nodes known after it.
Fields(hi, l) ==
  IF l = 0 THEN {[vals |-> <<>>, hi |-> hi]}
  ELSE UNION {{[vals |-> Append(p.vals, v), hi |-> IF v > p.hi THEN v ELSE p.hi] :
                 v \in {-1} \cup (1..(IF p.hi < NumNodes THEN p.hi + 1 ELSE NumNodes))} :
              p \in Fields(hi, l - 1)}

RECURSIVE Graphs(_, _, _)
\* The graphs from node x on, when hi nodes are known and f fields are left.
\* One numbering per graph: the roots first, every other node numbered in the
\* order in which a scan of nodes 1, 2, ... first meets a reference to it, so
\* that every node is reachable from a root.
Graphs(x, hi, f) ==
  IF x > hi THEN {<<>>}
  ELSE UNION {UNION {LET rest == Graphs(x + 1, p.hi, f - l)
                     IN {<<nd>> \o g : nd \in NodesWith(p.vals), g \in rest} :
                     p \in Fields(hi, l)} :
              l \in 0..f}

Stamp(g) ==
  [x \in 1..Len(g) |->
     [g[x] EXCEPT !.vals = [i \in 1..Len(g[x].vals) |->
                              IF g[x].vals[i] = -1 THEN ScalarAt(x, i) ELSE g[x].vals[i]]]]

\* deepMerge(target, source, {mergeArrays}) is called: node 1 is the first
\* structured root, node 2 the source when target is another node.
Roots == {<<Undefined, Undefined>>, <<Undefined, 1>>, <<1, Undefined>>, <<1, 1>>, <<1, 2>>}

NRoots(r) == IF r[1] = 0 /\ r[2] = 0 THEN 0 ELSE IF r[2] = 2 THEN 2 ELSE 1

Init ==
  /\ \E r \in Roots :
       /\ target = r[1]
       /\ source = r[2]
       /\ \E g \in Graphs(1, NRoots(r), MaxFields) :
            /\ heap = Stamp(g)
            /\ input = Stamp(g)
  /\ mergeArrays \in BOOLEAN
  /\ cloneMap = <<>>
  /\ pairMap = <<>>
  /\ stack = <<>>
  /\ pc = "start"
  /\ result = Undefined

----------------------------------------------------------------------------
\* The steps

\* The allocations internalDeepMerge may make: one per clone-table key and one
\* per pair-table key
AllocBound == Len(input) + Len(input) * Len(input)

Allocated == Len(heap) - Len(input)

\* internalDeepMerge(a, b) allocates its output, registers it and enters its loop
Enter(a, b) ==
  LET br  == Branch(heap, cloneMap, pairMap, a, b)
      out == Len(heap) + 1
  IN /\ br \notin Returning
     /\ Allocated < AllocBound
     /\ heap' = Append(heap, NewOutput(heap, br, a, out))
     /\ cloneMap' = RegisterClone(cloneMap, br, b, out)
     /\ pairMap' = RegisterPair(pairMap, br, a, b, out)
     /\ stack' = Append(stack, NewFrame(heap, br, mergeArrays, a, b, out))

\* deepMerge with no structured root: a new empty object
StartEmpty ==
  /\ pc = "start"
  /\ ~isObject(target) /\ ~isObject(source)
  /\ heap' = Append(heap, EmptyObj)
  /\ result' = Len(heap) + 1
  /\ pc' = "done"
  /\ UNCHANGED <<input, target, source, mergeArrays, cloneMap, pairMap, stack>>

\* deepMerge's first invocation returns at once
StartReturn ==
  /\ pc = "start"
  /\ isObject(target) \/ isObject(source)
  /\ LET args == RootArgs(target, source) IN
       /\ Branch(heap, cloneMap, pairMap, args[1], args[2]) \in Returning
       /\ result' = ReturnValue(heap, cloneMap, pairMap, args[1], args[2])
  /\ pc' = "done"
  /\ UNCHANGED <<heap, input, target, source, mergeArrays, cloneMap, pairMap, stack>>

\* deepMerge's first invocation allocates
StartEnter ==
  /\ pc = "start"
  /\ isObject(target) \/ isObject(source)
  /\ LET args == RootArgs(target, source) IN Enter(args[1], args[2])
  /\ pc' = "running"
  /\ UNCHANGED <<input, target, source, mergeArrays, result>>

\* The loop's invocation returns at once: its value is stored
CallReturn ==
  /\ pc = "running"
  /\ LET f    == stack[Len(stack)]
         args == NextArgs(heap, f)
     IN /\ ~Finished(heap, f)
        /\ Branch(heap, cloneMap, pairMap, args[1], args[2]) \in Returning
        /\ heap' = Store(heap, f, ReturnValue(heap, cloneMap, pairMap, args[1], args[2]))
        /\ stack' = [stack EXCEPT ![Len(stack)] = Advance(heap', f)]
  /\ UNCHANGED <<input, target, source, mergeArrays, cloneMap, pairMap, pc, result>>

\* The loop's invocation allocates: a frame is pushed
CallEnter ==
  /\ pc = "running"
  /\ LET f    == stack[Len(stack)]
         args == NextArgs(heap, f)
     IN /\ ~Finished(heap, f)
        /\ Enter(args[1], args[2])
  /\ UNCHANGED <<input, target, source, mergeArrays, pc, result>>

\* An inner invocation returns its output, which its caller stores
Return ==
  /\ pc = "running"
  /\ Len(stack) > 1
  /\ LET f == stack[Len(stack)]
         p == stack[Len(stack) - 1]
     IN /\ Finished(heap, f)
        /\ heap' = Store(heap, p, f.out)
        /\ stack' = [SubSeq(stack, 1, Len(stack) - 1) EXCEPT ![Len(stack) - 1] = Advance(heap', p)]
  /\ UNCHANGED <<input, target, source, mergeArrays, cloneMap, pairMap, pc, result>>

\* The first invocation returns: deepMerge returns its output
Finish ==
  /\ pc = "running"
  /\ Len(stack) = 1
  /\ Finished(heap, stack[1])
  /\ result' = stack[1].out
  /\ stack' = <<>>
  /\ pc' = "done"
  /\ UNCHANGED <<heap, input, target, source, mergeArrays, cloneMap, pairMap>>

Next == StartEmpty \/ StartReturn \/ StartEnter \/ CallReturn \/ CallEnter \/ Return \/ Finish

Spec == Init /\ [][Next]_vars

\* deepMerge is synchronous: a call that can take a step takes it
FairSpec == Spec /\ WF_vars(Next)

----------------------------------------------------------------------------
\* Vocabulary of the properties

Done == pc = "done"

AllKeys == {Keys[i] : i \in 1..Len(Keys)}

InputNodes == 1..Len(input)

IsNew(v) == v > Len(input)

Structured(h, v) == isObject(v) /\ h[v].kind \in {"map", "seq"}

Children(h, x) == {h[x].vals[i] : i \in 1..Len(h[x].vals)} \cap (1..Len(h))

RECURSIVE ReachFrom(_, _)
\* The nodes reachable from the nodes S through keys and elements
ReachFrom(h, S) ==
  LET S2 == S \cup UNION {Children(h, x) : x \in S}
  IN IF S2 = S THEN S ELSE ReachFrom(h, S2)

Reach(h, v) == IF isObject(v) THEN ReachFrom(h, {v}) ELSE {}

\* Some input node contains itself, directly or through other nodes
InputCyclic == \E x \in InputNodes : x \in ReachFrom(input, Children(input, x))

\* Structural equality of two values of the heap, cyclic ones included: the
\* largest relation that relates nodes of the same kind, keys and length whose
\* values are pairwise equal scalars or related nodes. An opaque object is
\* equal to itself only.
SameShape(h) ==
  {p \in (1..Len(h)) \X (1..Len(h)) :
     /\ h[p[1]].kind = h[p[2]].kind
     /\ Len(h[p[1]].vals) = Len(h[p[2]].vals)
     /\ KeySet(h[p[1]]) = KeySet(h[p[2]])
     /\ h[p[1]].kind = "opq" => p[1] = p[2]}

ValEq(R, u, v) == IF isObject(u) /\ isObject(v) THEN <<u, v>> \in R ELSE u = v

FieldsEq(h, R, x, y) ==
  IF h[x].kind = "map"
  THEN \A k \in KeySet(h[x]) : ValEq(R, Get(h, x, k), Get(h, y, k))
  ELSE \A i \in 1..Len(h[x].vals) : ValEq(R, h[x].vals[i], h[y].vals[i])

RECURSIVE Bisim(_, _)
Bisim(h, R) ==
  LET R2 == {p \in R : FieldsEq(h, R, p[1], p[2])}
  IN IF R2 = R THEN R ELSE Bisim(h, R2)

StructEq(h, u, v) == ValEq(Bisim(h, SameShape(h)), u, v)

\* The pairs of distinct plain objects that were merged
MapPairs == {p \in DOMAIN pairMap : isPlainObject(heap, p[1]) /\ isPlainObject(heap, p[2])}

BothKeys(p) == KeySet(heap[p[1]]) \cap KeySet(heap[p[2]])

----------------------------------------------------------------------------
\* C1 Non-mutation: at every step of a call, every node of the two input graphs
\* has the keys, the element order and the values it had when deepMerge was called.
C1_InputsUnchanged ==
  /\ Len(heap) >= Len(input)
  /\ \A x \in InputNodes : heap[x] = input[x]

\* A merge of two distinct cyclic graphs has completed, with merged pairs and clones
C1_Witness ==
  /\ Done
  /\ InputCyclic
  /\ DOMAIN pairMap # {}
  /\ DOMAIN cloneMap # {}

\* C2 Fresh allocation, as claimed: with both roots structured, every Map or
\* Sequence reachable from the result was allocated by the call, so none of them
\* is a node of the inputs.
C2_ResultIsFresh ==
  (Done /\ isObject(target) /\ isObject(source)) =>
    \A x \in Reach(heap, result) : Structured(heap, x) => IsNew(x)

\* C3 Termination: every call returns, and the invocations that allocate an
\* output are never more than the keys of the clone table plus the keys of the
\* pair table, which are input nodes and pairs of input nodes.
EmptyRoot == IF Done /\ ~isObject(target) /\ ~isObject(source) THEN 1 ELSE 0

C3_AllocationsBounded ==
  /\ Allocated - EmptyRoot <= Cardinality(DOMAIN cloneMap) + Cardinality(DOMAIN pairMap)
  /\ DOMAIN cloneMap \subseteq InputNodes
  /\ DOMAIN pairMap \subseteq InputNodes \X InputNodes
  /\ Allocated - EmptyRoot <= AllocBound

C3_Terminates == []C3_AllocationsBounded /\ <>Done

\* A call on a self-referential target whose source references the target's
\* nodes has returned
C3_Witness ==
  /\ Done
  /\ isObject(target) /\ isObject(source) /\ target # source
  /\ target \in ReachFrom(input, Children(input, target))
  /\ target \in Reach(input, source)
  /\ DOMAIN pairMap # {}

----------------------------------------------------------------------------
\* The parts of C4 that the original and the amended statement share. For a
\* merged pair p of plain objects with output o: the keys of o are those of
\* either side; a key of the source alone holds a structurally equal copy; a key
\* of both whose values x, y are plain objects holds their merge, which has the
\* keys of x and of y and y's value wherever that is a scalar.
MergedValue(x, y) == IF x = y THEN x ELSE getPair(pairMap, x, y)

C4_Union(p) ==
  LET a == p[1]
      b == p[2]
      o == pairMap[p]
  IN /\ isPlainObject(heap, o)
     /\ KeySet(heap[o]) = KeySet(heap[a]) \cup KeySet(heap[b])
     /\ \A k \in KeySet(heap[b]) \ KeySet(heap[a]) :
          StructEq(heap, Get(heap, o, k), Get(heap, b, k))
     /\ \A k \in BothKeys(p) :
          LET x == Get(heap, a, k)
              y == Get(heap, b, k)
              v == Get(heap, o, k)
          IN (isPlainObject(heap, x) /\ isPlainObject(heap, y)) =>
               /\ v = MergedValue(x, y)
               /\ isPlainObject(heap, v)
               /\ KeySet(heap[v]) = KeySet(heap[x]) \cup KeySet(heap[y])
               /\ \A j \in KeySet(heap[y]) :
                    ~isObject(Get(heap, y, j)) => Get(heap, v, j) = Get(heap, y, j)

\* C4 Deep key union, as claimed: ... and a key of the target alone keeps the
\* target's value.
C4_KeyUnion_Original ==
  Done => \A p \in MapPairs :
    /\ C4_Union(p)
    /\ \A k \in KeySet(heap[p[1]]) \ KeySet(heap[p[2]]) :
         Get(heap, pairMap[p], k) = Get(heap, p[1], k)

\* C4 Deep key union, amended: when two plain objects a and b have been merged,
\* the output's keys are keys(a) union keys(b); a key of a alone keeps a's value,
\* except that a value that is a itself becomes the output; a key of b alone
\* gets a structurally equal copy of b's value; a key of both whose values are
\* plain objects gets their recursive merge.
C4_KeyUnion ==
  Done => \A p \in MapPairs :
    /\ C4_Union(p)
    /\ \A k \in KeySet(heap[p[1]]) \ KeySet(heap[p[2]]) :
         Get(heap, pairMap[p], k) =
           (IF Get(heap, p[1], k) = p[1] THEN pairMap[p] ELSE Get(heap, p[1], k))

\* Two objects were merged whose shared key holds two distinct plain objects,
\* the target's with a key that the source's lacks
C4_Witness ==
  /\ Done
  /\ \E p \in MapPairs : \E k \in BothKeys(p) :
       LET x == Get(heap, p[1], k)
           y == Get(heap, p[2], k)
       IN /\ isPlainObject(heap, x) /\ isPlainObject(heap, y) /\ x # y
          /\ KeySet(heap[x]) \ KeySet(heap[y]) # {}

\* The places where a target value x meets a source value y, with the value v
\* the result holds there: the roots, and every key of both sides of a merged
\* pair of plain objects
Positions ==
  {<<target, source, result>>}
    \cup {<<Get(heap, q[1], q[3]), Get(heap, q[2], q[3]), Get(heap, pairMap[<<q[1], q[2]>>], q[3])>> :
            q \in {r \in InputNodes \X InputNodes \X AllKeys :
                     /\ <<r[1], r[2]>> \in MapPairs
                     /\ r[3] \in BothKeys(<<r[1], r[2]>>)}}

\* C5 Array law, as claimed: wherever a target array x meets a source array y,
\* the result holds an array of copies of y's elements in order, after copies
\* of x's elements when mergeArrays is set (len(x) + len(y) elements). That the
\* array is a new one is C2's matter and is left out here.
C5_ArrayLaw ==
  Done => \A q \in Positions :
    (isArray(heap, q[1]) /\ isArray(heap, q[2])) =>
      LET want == IF mergeArrays THEN heap[q[1]].vals \o heap[q[2]].vals ELSE heap[q[2]].vals
          v    == q[3]
      IN /\ isArray(heap, v)
         /\ Len(heap[v].vals) = Len(want)
         /\ \A i \in 1..Len(want) : i <= Len(heap[v].vals) => StructEq(heap, heap[v].vals[i], want[i])

\* C6 Source precedence: for a key of both sides of two merged plain objects, a
\* source value that is a scalar or an opaque object is the result's value
\* itself, whatever the target holds; and when one side holds a plain object
\* and the other an array, the result holds a node of the source's kind that
\* is structurally equal to the source's value.
C6_SourcePrecedence ==
  Done => \A p \in MapPairs : \A k \in BothKeys(p) :
    LET tv == Get(heap, p[1], k)
        sv == Get(heap, p[2], k)
        rv == Get(heap, pairMap[p], k)
    IN /\ ~Structured(heap, sv) => rv = sv
       /\ (\/ isPlainObject(heap, tv) /\ isArray(heap, sv)
           \/ isArray(heap, tv) /\ isPlainObject(heap, sv)) =>
            /\ isObject(rv)
            /\ heap[rv].kind = heap[sv].kind
            /\ StructEq(heap, rv, sv)

\* A key held a plain object on one side and a non-empty node of the other
\* kind on the other, or an opaque source value over a structured target value
C6_Witness ==
  /\ Done
  /\ \E p \in MapPairs : \E k \in BothKeys(p) :
       LET tv == Get(heap, p[1], k)
           sv == Get(heap, p[2], k)
       IN \/ isPlainObject(heap, tv) /\ isArray(heap, sv) /\ heap[sv].vals # <<>>
          \/ isArray(heap, tv) /\ isPlainObject(heap, sv) /\ heap[sv].vals # <<>>

\* C7 Root handling: with no structured root the result is a new empty object;
\* with one, it is structurally equal to that root and none of its Maps and
\* Sequences is a node of the input; pairs are merged only when both roots are
\* structured.
C7_RootHandling ==
  /\ (~isObject(target) \/ ~isObject(source)) => DOMAIN pairMap = {}
  /\ (Done /\ ~isObject(target) /\ ~isObject(source)) =>
       IsNew(result) /\ heap[result] = EmptyObj
  /\ (Done /\ isObject(target) # isObject(source)) =>
       LET root == IF isObject(target) THEN target ELSE source
       IN /\ StructEq(heap, result, root)
          /\ \A x \in Reach(heap, result) : Structured(heap, x) => IsNew(x)

\* The one structured root, a Map or Sequence holding another one, was cloned
C7_Witness ==
  /\ Done
  /\ isObject(target) # isObject(source)
  /\ IsNew(result)
  /\ \E x \in Reach(heap, result) : x # result /\ Structured(heap, x)

\* The keys k at which a plain-object target holds itself and a plain-object
\* source holds nothing
SelfKeys ==
  IF isPlainObject(heap, target) /\ isPlainObject(heap, source)
  THEN {k \in KeySet(heap[target]) \ KeySet(heap[source]) : Get(heap, target, k) = target}
  ELSE {}

\* C8 Direct self-reference, as claimed: r[k] is r for such a key k, and every
\* key of the source is in r with the source's value.
C8_SelfReference_Original ==
  (Done /\ SelfKeys # {}) =>
    /\ IsNew(result)
    /\ \A k \in SelfKeys : Get(heap, result, k) = result
    /\ \A j \in KeySet(heap[source]) :
         /\ hasOwn(heap, result, j)
         /\ StructEq(heap, Get(heap, result, j), Get(heap, source, j))

\* C8 Direct self-reference, amended: r[k] is r, not t, and every key of the
\* source is in r: with the source's value itself when that is a scalar or an
\* opaque object, and with a structurally equal copy of it when the target has
\* no structured value under that key.
C8_SelfReference ==
  (Done /\ SelfKeys # {}) =>
    /\ IsNew(result)
    /\ \A k \in SelfKeys : Get(heap, result, k) = result
    /\ \A j \in KeySet(heap[source]) :
         /\ hasOwn(heap, result, j)
         /\ ~Structured(heap, Get(heap, source, j)) =>
              Get(heap, result, j) = Get(heap, source, j)
         /\ (~hasOwn(heap, target, j) \/ ~isObject(Get(heap, target, j))) =>
              StructEq(heap, Get(heap, result, j), Get(heap, source, j))

\* A self-referencing target was merged with a source that has keys
C8_Witness ==
  /\ Done
  /\ SelfKeys # {}
  /\ KeySet(heap[source]) # {}

RECURSIVE Walk(_, _, _)
\* The value at the end of the key path from v through plain objects (0: none)
Walk(h, v, path) ==
  IF path = <<>> THEN v
  ELSE IF isPlainObject(h, v) /\ hasOwn(h, v, Head(path))
       THEN Walk(h, Get(h, v, Head(path)), Tail(path))
       ELSE Undefined

KeyPaths == UNION {[1..l -> AllKeys] : l \in 1..NumNodes}

\* The source holds a scalar, an opaque object or an array somewhere on the path
Overwritten(b, path) ==
  \E i \in 1..Len(path) :
    LET sv == Walk(input, b, SubSeq(path, 1, i))
    IN sv # Undefined /\ ~isPlainObject(input, sv)

\* C9 Cycle topology, as claimed: when a target plain object A that a key path
\* through plain objects leads back to has been merged, and the source holds
\* nothing but plain objects on that path, the same path leads from the output
\* for A back to that output.
C9_CycleMirrored ==
  Done => \A p \in MapPairs : \A path \in KeyPaths :
    (Walk(input, p[1], path) = p[1] /\ ~Overwritten(p[2], path)) =>
      Walk(heap, pairMap[p], path) = pairMap[p]

\* The references to x held by the nodes that were cloned
RefsFromCloned(x) ==
  Cardinality({q \in (DOMAIN cloneMap) \X (1..MaxFields) :
                 q[2] <= Len(heap[q[1]].vals) /\ heap[q[1]].vals[q[2]] = x})

CloneOf(v) == IF Structured(heap, v) /\ v \in DOMAIN cloneMap THEN cloneMap[v] ELSE v

\* C10 Clone sharing: a Map or Sequence met with no target counterpart has one
\* clone, allocated once and registered while its children are being cloned;
\* when the call returns the clone holds, key by key and element by element,
\* the source's scalars and opaque objects and the one clone of each Map or
\* Sequence, so the clones alias and contain one another as the sources do.
C10_CloneSharing ==
  /\ \A x \in DOMAIN cloneMap :
       /\ Structured(heap, x) /\ ~IsNew(x)
       /\ IsNew(cloneMap[x])
       /\ heap[cloneMap[x]].kind = heap[x].kind
       /\ \A y \in DOMAIN cloneMap : cloneMap[x] = cloneMap[y] => x = y
  /\ Allocated - EmptyRoot = Cardinality(DOMAIN cloneMap) + Cardinality(DOMAIN pairMap)
  /\ \A n \in 1..Len(stack) :
       ~isObject(stack[n].a) =>
         stack[n].b \in DOMAIN cloneMap /\ cloneMap[stack[n].b] = stack[n].out
  /\ Done => \A x \in DOMAIN cloneMap :
       /\ heap[cloneMap[x]].keys = heap[x].keys
       /\ Len(heap[cloneMap[x]].vals) = Len(heap[x].vals)
       /\ \A i \in 1..Len(heap[x].vals) :
            /\ Structured(heap, heap[x].vals[i]) => heap[x].vals[i] \in DOMAIN cloneMap
            /\ i <= Len(heap[cloneMap[x]].vals) =>
                 heap[cloneMap[x]].vals[i] = CloneOf(heap[x].vals[i])

\* A cloned node is referenced twice by cloned nodes, once by itself
C10_Witness ==
  /\ Done
  /\ \E x \in DOMAIN cloneMap :
       /\ RefsFromCloned(x) >= 2
       /\ x \in Children(heap, x)

====
